---- MODULE Spec2Model ----
(***************************************************************************)
(* A model of crates/sui-indexer/src/handlers/tx_processor.rs:             *)
(*   - IndexingPackageCache with its background task remove_committed,     *)
(*   - InMemObjectCache and TxChangesProcessor (the ObjectProvider).       *)
(* Option<T> values are modelled as sets with at most one element.         *)
(***************************************************************************)
EXTENDS Integers, Sequences, FiniteSets, TLC

\* ------------------------------------------------------------------------
\* Bounds of the model
\* ------------------------------------------------------------------------

\* checkpoint sequence numbers range over 0..MaxCheckpoint
MaxCheckpoint == 2

\* a batch handed to insert_packages holds 1..MaxBatch packages
MaxBatch == 2

\* object versions range over 1..MaxVersion
MaxVersion == 3

\* TxChangesProcessor::new is given at most MaxObjects objects, and the
\* InMemObjectCache instances are given at most MaxObjects objects in all
MaxObjects == 2

\* at most MaxCaches InMemObjectCache instances are alive at once
MaxCaches == 2

\* ------------------------------------------------------------------------
\* Option<T>
\* ------------------------------------------------------------------------

None == {}

Some(x) == {x}

Unwrap(opt) == CHOOSE x \in opt : TRUE

\* opt is None, or holds a value less than x
IsBelow(opt, x) == IF opt = None THEN TRUE ELSE Unwrap(opt) < x

\* ------------------------------------------------------------------------
\* Inputs of the package cache
\* ------------------------------------------------------------------------

PackageIds == {"p1", "p2"}

AllModuleNames == {"a", "b"}

CheckpointSequenceNumbers == 0..MaxCheckpoint

\* the module names of a package, in the order its BTreeMap iterates them
ModuleNamesOf(p) == IF p = "p1" THEN <<"a", "b">> ELSE <<"a">>

\* the bytes of one serialized module; valid = FALSE is a malformed blob
ModuleBytes(p, n, c, valid) ==
    [valid |-> valid, address |-> p, name |-> n, body |-> c]

\* an IndexedPackage observed at checkpoint c; corrupt names the module whose
\* bytes are malformed ("" for none)
IndexedPackage(p, c, corrupt) ==
    [package_id |-> p,
     checkpoint_sequence_number |-> c,
     serialized_module_map |->
        [i \in 1..Len(ModuleNamesOf(p)) |->
            <<ModuleNamesOf(p)[i],
              ModuleBytes(p, ModuleNamesOf(p)[i], c, ModuleNamesOf(p)[i] # corrupt)>>]]

IndexedPackages ==
    {IndexedPackage(p, c, "") : p \in PackageIds, c \in CheckpointSequenceNumbers}
    \cup {IndexedPackage("p1", 0, "b")}

RECURSIVE SeqsUpTo(_, _)
SeqsUpTo(S, n) ==
    IF n = 0 THEN {<<>>}
    ELSE LET shorter == SeqsUpTo(S, n - 1)
         IN  shorter \cup {Append(s, x) : s \in shorter, x \in S}

\* the slices insert_packages is called with
Batches == SeqsUpTo(IndexedPackages, MaxBatch) \ {<<>>}

ModuleIds == [address : PackageIds, name : AllModuleNames]

\* ------------------------------------------------------------------------
\* IndexingPackageCache: pure parts
\* ------------------------------------------------------------------------

\* CompiledModule::deserialize_with_defaults: Err on malformed bytes,
\* otherwise the decoded module
deserialize_with_defaults(bytes) ==
    IF bytes.valid
    THEN [ok |-> TRUE,
          module |-> [address |-> bytes.address, name |-> bytes.name, body |-> bytes.body]]
    ELSE [ok |-> FALSE, module |-> [address |-> "", name |-> "", body |-> -1]]

\* the (key, bytes, checkpoint) triples the flat_map of insert_packages yields,
\* in iteration order
RECURSIVE FlatMap(_)
FlatMap(new_packages) ==
    IF new_packages = <<>> THEN <<>>
    ELSE LET p == Head(new_packages)
             mm == p.serialized_module_map
         IN  [i \in 1..Len(mm) |->
                [key |-> <<p.package_id, mm[i][1]>>,
                 bytes |-> mm[i][2],
                 checkpoint_seq |-> p.checkpoint_sequence_number]]
             \o FlatMap(Tail(new_packages))

\* an insert that keeps the value already stored under key (entry().or_insert())
MapInsertIfAbsent(map, key, value) ==
    [k \in DOMAIN map \cup {key} |-> IF k \in DOMAIN map THEN map[k] ELSE value]

\* HashMap::insert / one step of HashMap::extend: the value under key is replaced
MapInsert(map, key, value) ==
    [k \in DOMAIN map \cup {key} |-> IF k = key THEN value ELSE map[k]]

\* HashMap::remove: no effect when the key is absent
MapRemove(map, key) == [k \in DOMAIN map \ {key} |-> map[k]]

\* an extend that keeps the stored entry when its checkpoint is the later one
MapExtendKeepLater(map, other) ==
    [k \in DOMAIN map \cup DOMAIN other |->
        IF k \in DOMAIN other
           /\ (k \in DOMAIN map => map[k].checkpoint_seq <= other[k].checkpoint_seq)
        THEN other[k] ELSE map[k]]

\* HashMap::extend
MapExtend(map, other) ==
    [k \in DOMAIN map \cup DOMAIN other |-> IF k \in DOMAIN other THEN other[k] ELSE map[k]]

\* .collect::<HashMap<_, _>>() over the decoded items: a later item replaces an
\* earlier one with the same key; the unwrap() of a failed decode panics
RECURSIVE Collect(_, _)
Collect(items, acc) ==
    IF items = <<>> THEN [panicked |-> FALSE, map |-> acc]
    ELSE LET it == Head(items)
             d  == deserialize_with_defaults(it.bytes)
         IN  IF ~d.ok THEN [panicked |-> TRUE, map |-> acc]
             ELSE Collect(Tail(items),
                          MapInsert(acc, it.key,
                                    [module |-> d.module,
                                     checkpoint_seq |-> it.checkpoint_seq]))

\* insert_packages with a decode failure leaving what was decoded so far in the cache
insert_packages_partial(cache, new_packages) ==
    LET c == Collect(FlatMap(new_packages), <<>>)
    IN  [panicked |-> c.panicked, packages |-> MapExtend(cache, c.map)]

\* insert_packages keeping the stored entry when the key is already cached
insert_packages_keep_old(cache, new_packages) ==
    LET c == Collect(FlatMap(new_packages), <<>>)
    IN  IF c.panicked THEN [panicked |-> TRUE, packages |-> cache]
        ELSE [panicked |-> FALSE, packages |-> MapExtend(c.map, cache)]

\* insert_packages: the new map is collected first, the cache is extended after
insert_packages(cache, new_packages) ==
    LET c == Collect(FlatMap(new_packages), <<>>)
    IN  IF c.panicked THEN [panicked |-> TRUE, packages |-> cache]
        ELSE [panicked |-> FALSE, packages |-> MapExtend(cache, c.map)]

\* get_module_by_id misreading the key (module name only)
get_module_by_id_any_package(cache, id) ==
    LET hits == {k \in DOMAIN cache : k[2] = id.name}
    IN  IF hits = {} THEN None ELSE Some(cache[CHOOSE k \in hits : TRUE].module)

get_module_by_id(cache, id) ==
    LET package_id == id.address
        name == id.name
    IN  IF <<package_id, name>> \in DOMAIN cache
        THEN Some(cache[<<package_id, name>>].module)
        ELSE None

\* the scan of remove_committed stopping at the first hit
ScanFirstOnly(cache, committed) ==
    LET hits == {id \in DOMAIN cache : cache[id].checkpoint_seq <= committed}
    IN  IF hits = {} THEN {} ELSE {CHOOSE id \in hits : TRUE}

\* the scan of remove_committed with a strict comparison
ScanStrict(cache, committed) ==
    {id \in DOMAIN cache : cache[id].checkpoint_seq < committed}

\* the scan of remove_committed taking the checkpoint after the committed one too
ScanOffByOne(cache, committed) ==
    {id \in DOMAIN cache : cache[id].checkpoint_seq <= committed + 1}

\* the scan of remove_committed taking the entries of the committed checkpoint only
ScanEqual(cache, committed) ==
    {id \in DOMAIN cache : cache[id].checkpoint_seq = committed}

\* the scan loop of remove_committed: the keys pushed to to_remove
Scan(cache, committed) ==
    {id \in DOMAIN cache : cache[id].checkpoint_seq <= committed}

\* `let Some(committed_checkpoint) = *commit_watcher.borrow() else { continue }`
\* reading an unset watermark as checkpoint 0
BorrowOrDefault(watermark) == IF watermark = None THEN Some(0) ELSE watermark

\* the value the let-else binds: None stands for `continue`
Borrow(watermark) == watermark

\* ------------------------------------------------------------------------
\* State
\* ------------------------------------------------------------------------

VARIABLES
    packages,              \* IndexingPackageCache.packages
    commit_watcher,        \* the value held by the watch channel (Option)
    mutex,                 \* who holds the cache's Mutex: "free" or "gc"
    poisoned,              \* the Mutex is poisoned (a holder panicked)
    gc_pc,                 \* remove_committed: "sleep", "lock", "scan", "delete", "panicked"
    committed_checkpoint,  \* remove_committed's local of that name (Option)
    to_remove,             \* remove_committed's local of that name
    proc_pc,               \* the checkpoint-processing caller: "running", "looked_up", "panicked"
    ret,                   \* the last get_module_by_id call and what it returned (Option)
    observed,              \* history: what the current iteration's borrow() saw (Option of Option)
    sweep_start,           \* history: packages when the current sweep took the lock (Option)
    prev_sweep,            \* history: watermark of the last finished sweep, None after an insert
    arg_batch,             \* the slice of the call under study (Option)
    pre_packages,          \* history: packages just before the call under study (Option)
    indexed,               \* upstream: the last checkpoint handed to the cache (Option)
    id_map,                \* InMemObjectCache.id_map of the TxChangesProcessor
    seq_map,               \* InMemObjectCache.seq_map of the TxChangesProcessor
    objects,               \* the objects TxChangesProcessor::new has inserted so far, in order
    tx_pc,                 \* the processor: "new", "ready", "called", "panicked"
    call,                  \* the ObjectProvider call that returned last, with its outcome (Option)
    changes,               \* the get_changes call that ended last, with its outcome (Option)
    caches,                \* the heap of InMemObjectCache values: address -> (id_map, seq_map)
    inst,                  \* the addresses of the InMemObjectCache instances created so far
    inserted,              \* history: per instance, the objects given to insert_object, in order
    got,                   \* the InMemObjectCache::get call that returned last, with its result (Option)
    epoch_objects,         \* EpochEndIndexingObjectStore.objects (None before new)
    epoch_ret              \* the ObjectStore call that returned last, with its result (Option)

pkg_vars ==
    <<packages, commit_watcher, mutex, poisoned, gc_pc, committed_checkpoint,
      to_remove, proc_pc, ret, observed, sweep_start, prev_sweep>>

call_vars == <<arg_batch, pre_packages>>

proc_vars == <<id_map, seq_map, objects, tx_pc, call>>

cache_vars == <<caches, inst, inserted, got>>

epoch_vars == <<epoch_objects, epoch_ret>>

more_vars == <<changes, cache_vars, epoch_vars>>

obj_vars == <<id_map, seq_map, objects, tx_pc, call, more_vars>>

vars == <<pkg_vars, call_vars, indexed, obj_vars>>

\* IndexingPackageCache::start: an empty cache, the task spawned, nothing published
PkgInit ==
    /\ packages = <<>>
    /\ commit_watcher = None
    /\ mutex = "free"
    /\ poisoned = FALSE
    /\ gc_pc = "sleep"
    /\ committed_checkpoint = None
    /\ to_remove = {}
    /\ proc_pc = "running"
    /\ ret = None
    /\ observed = None
    /\ sweep_start = None
    /\ prev_sweep = None

CallInit ==
    /\ arg_batch = None
    /\ pre_packages = None

\* InMemObjectCache::new, at the start of TxChangesProcessor::new
ObjInit ==
    /\ id_map = <<>>
    /\ seq_map = <<>>
    /\ objects = <<>>
    /\ tx_pc = "new"
    /\ call = None

\* no InMemObjectCache of its own yet
CacheInit ==
    /\ caches = <<>>
    /\ inst = <<>>
    /\ inserted = <<>>
    /\ got = None

\* no EpochEndIndexingObjectStore yet
EpochInit ==
    /\ epoch_objects = None
    /\ epoch_ret = None

MoreInit == changes = None /\ CacheInit /\ EpochInit

Init == PkgInit /\ CallInit /\ indexed = None /\ ObjInit /\ MoreInit

\* ------------------------------------------------------------------------
\* The callers of the cache (they reach it through Arc<Mutex<Self>>)
\* ------------------------------------------------------------------------

\* cache.lock().unwrap() succeeds: the Mutex is free and not poisoned
CanLock == mutex = "free" /\ ~poisoned

\* the upstream publishes a commit watermark on the watch channel
Publish(w) ==
    /\ commit_watcher' = Some(w)
    /\ UNCHANGED <<packages, mutex, poisoned, gc_pc, committed_checkpoint, to_remove,
                   proc_pc, ret, observed, sweep_start, prev_sweep>>

\* cache.lock().unwrap().insert_packages(new_packages); a panic inside unwinds
\* through the guard and poisons the Mutex
InsertPackages(new_packages) ==
    /\ proc_pc = "running"
    /\ CanLock
    /\ LET r == insert_packages(packages, new_packages)
       IN  /\ packages' = r.packages
           /\ poisoned' = r.panicked
           /\ proc_pc' = IF r.panicked THEN "panicked" ELSE "running"
    /\ prev_sweep' = None
    /\ UNCHANGED <<commit_watcher, mutex, gc_pc, committed_checkpoint, to_remove,
                   ret, observed, sweep_start>>

\* cache.lock().unwrap().get_module_by_id(id)
GetModuleById(id) ==
    /\ proc_pc = "running"
    /\ CanLock
    /\ ret' = Some([id |-> id, module |-> get_module_by_id(packages, id)])
    /\ proc_pc' = "looked_up"
    /\ UNCHANGED <<packages, commit_watcher, mutex, poisoned, gc_pc,
                   committed_checkpoint, to_remove, observed, sweep_start, prev_sweep>>

\* the caller uses what the lookup returned (a miss falls back to durable
\* storage) and goes on with its checkpoint
UseModule ==
    /\ proc_pc = "looked_up"
    /\ proc_pc' = "running"
    /\ ret' = None
    /\ UNCHANGED <<packages, commit_watcher, mutex, poisoned, gc_pc,
                   committed_checkpoint, to_remove, observed, sweep_start, prev_sweep>>

\* ------------------------------------------------------------------------
\* remove_committed, one loop iteration
\* ------------------------------------------------------------------------

\* interval.tick().await and the borrow of the watermark; an unset watermark
\* is `continue`
GcTick ==
    /\ gc_pc = "sleep"
    /\ LET b == Borrow(commit_watcher)
       IN  IF b = None
           THEN UNCHANGED <<gc_pc, committed_checkpoint, observed>>
           ELSE /\ gc_pc' = "lock"
                /\ committed_checkpoint' = b
                /\ observed' = Some(commit_watcher)
    /\ UNCHANGED <<packages, commit_watcher, mutex, poisoned, to_remove, proc_pc, ret,
                   sweep_start, prev_sweep>>

\* the guard taken at cache.lock().unwrap() is given up right after the scan
GcScanThenUnlock ==
    /\ gc_pc = "scan"
    /\ to_remove' = Scan(packages, Unwrap(committed_checkpoint))
    /\ gc_pc' = "delete"
    /\ mutex' = "free"
    /\ UNCHANGED <<packages, commit_watcher, poisoned, committed_checkpoint, proc_pc,
                   ret, observed, sweep_start, prev_sweep>>

\* let mut cache = cache.lock().unwrap(); let mut to_remove = vec![];
GcLock ==
    /\ gc_pc = "lock"
    /\ mutex = "free"
    /\ IF poisoned
       THEN /\ gc_pc' = "panicked"
            /\ UNCHANGED <<mutex, to_remove, sweep_start>>
       ELSE /\ gc_pc' = "scan"
            /\ mutex' = "gc"
            /\ to_remove' = {}
            /\ sweep_start' = Some(packages)
    /\ UNCHANGED <<packages, commit_watcher, poisoned, committed_checkpoint, proc_pc,
                   ret, observed, prev_sweep>>

\* for (id, (_, checkpoint_seq)) in cache.packages.iter() { ... push ... }
GcScan ==
    /\ gc_pc = "scan"
    /\ to_remove' = Scan(packages, Unwrap(committed_checkpoint))
    /\ gc_pc' = "delete"
    /\ UNCHANGED <<packages, commit_watcher, mutex, poisoned, committed_checkpoint,
                   proc_pc, ret, observed, sweep_start, prev_sweep>>

\* for id in to_remove { cache.packages.remove(&id); }, one key per step
GcRemove ==
    /\ gc_pc = "delete"
    /\ \E id \in to_remove :
          /\ packages' = MapRemove(packages, id)
          /\ to_remove' = to_remove \ {id}
    /\ UNCHANGED <<commit_watcher, mutex, poisoned, gc_pc, committed_checkpoint,
                   proc_pc, ret, observed, sweep_start, prev_sweep>>

\* the end of the loop body: the guard is dropped, the task sleeps again
GcUnlock ==
    /\ gc_pc = "delete"
    /\ to_remove = {}
    /\ gc_pc' = "sleep"
    /\ mutex' = "free"
    /\ prev_sweep' = committed_checkpoint
    /\ committed_checkpoint' = None
    /\ observed' = None
    /\ sweep_start' = None
    /\ UNCHANGED <<packages, commit_watcher, poisoned, to_remove, proc_pc, ret>>

remove_committed == GcTick \/ GcLock \/ GcScan \/ GcRemove \/ GcUnlock

\* ------------------------------------------------------------------------
\* Specification of the package cache: any interleaving of the callers, the
\* publisher and the task
\* ------------------------------------------------------------------------

Next ==
    \/ \E w \in CheckpointSequenceNumbers : Publish(w) /\ UNCHANGED <<call_vars, indexed, obj_vars>>
    \/ \E b \in Batches : InsertPackages(b) /\ UNCHANGED <<call_vars, indexed, obj_vars>>
    \/ \E id \in ModuleIds : GetModuleById(id) /\ UNCHANGED <<call_vars, indexed, obj_vars>>
    \/ UseModule /\ UNCHANGED <<call_vars, indexed, obj_vars>>
    \/ remove_committed /\ UNCHANGED <<call_vars, indexed, obj_vars>>

Spec == Init /\ [][Next]_vars

\* ------------------------------------------------------------------------
\* The same, under the upstream's ordering: checkpoints reach the cache in
\* increasing sequence, a watermark w is published only once checkpoint w has
\* been handed to the cache, and the watermark never decreases
\* ------------------------------------------------------------------------

\* the packages of new_packages belong to checkpoints after the last one indexed,
\* in order
InSequence(new_packages) ==
    /\ \A i \in 1..Len(new_packages) :
          IsBelow(indexed, new_packages[i].checkpoint_sequence_number)
    /\ \A i, j \in 1..Len(new_packages) :
          i < j => new_packages[i].checkpoint_sequence_number
                     <= new_packages[j].checkpoint_sequence_number

\* the packages of the next checkpoints are inserted
IndexPackages(new_packages) ==
    /\ InSequence(new_packages)
    /\ InsertPackages(new_packages)
    /\ indexed' = Some(new_packages[Len(new_packages)].checkpoint_sequence_number)
    /\ UNCHANGED <<call_vars, obj_vars>>

\* the next checkpoint publishes no package
IndexEmptyCheckpoint ==
    /\ proc_pc = "running"
    /\ LET next == IF indexed = None THEN 0 ELSE Unwrap(indexed) + 1
       IN  /\ next \in CheckpointSequenceNumbers
           /\ indexed' = Some(next)
    /\ UNCHANGED <<pkg_vars, call_vars, obj_vars>>

\* the store commits up to checkpoint w
PublishCommitted(w) ==
    /\ indexed # None
    /\ w <= Unwrap(indexed)
    /\ IsBelow(commit_watcher, w + 1)
    /\ Publish(w)
    /\ UNCHANGED <<call_vars, indexed, obj_vars>>

NextOrdered ==
    \/ \E w \in CheckpointSequenceNumbers : PublishCommitted(w)
    \/ \E b \in Batches : IndexPackages(b)
    \/ IndexEmptyCheckpoint
    \/ \E id \in ModuleIds : GetModuleById(id) /\ UNCHANGED <<call_vars, indexed, obj_vars>>
    \/ UseModule /\ UNCHANGED <<call_vars, indexed, obj_vars>>
    \/ remove_committed /\ UNCHANGED <<call_vars, indexed, obj_vars>>

SpecOrdered == Init /\ [][NextOrdered]_vars

\* ------------------------------------------------------------------------
\* One insert_packages call under study: the cache starts from what an earlier
\* insert left, the call's slice is fixed at the start and kept
\* ------------------------------------------------------------------------

\* what an earlier insert_packages call can have left in the cache
SeedCaches ==
    {insert_packages(<<>>, b).packages : b \in SeqsUpTo(IndexedPackages, MaxBatch)}

\* the state after IndexingPackageCache::start and one earlier insert, with
\* the slice of the call under study drawn from batches
InitCall(batches) ==
    /\ packages \in SeedCaches
    /\ commit_watcher = None
    /\ mutex = "free"
    /\ poisoned = FALSE
    /\ gc_pc = "sleep"
    /\ committed_checkpoint = None
    /\ to_remove = {}
    /\ proc_pc = "running"
    /\ ret = None
    /\ observed = None
    /\ sweep_start = None
    /\ prev_sweep = None
    /\ arg_batch \in {Some(b) : b \in batches}
    /\ pre_packages = None
    /\ indexed = None
    /\ ObjInit
    /\ MoreInit

\* the call under study
InsertCall ==
    /\ pre_packages = None
    /\ InsertPackages(Unwrap(arg_batch))
    /\ pre_packages' = Some(packages)
    /\ UNCHANGED <<arg_batch, indexed, obj_vars>>

\* the call and the lookups that follow it
InitInsert == InitCall(Batches)

NextInsert ==
    \/ InsertCall
    \/ \E id \in ModuleIds : GetModuleById(id) /\ UNCHANGED <<call_vars, indexed, obj_vars>>
    \/ UseModule /\ UNCHANGED <<call_vars, indexed, obj_vars>>

SpecInsert == InitInsert /\ [][NextInsert]_vars

\* the call, of a slice of one package, with the publisher, the task and the
\* lookups running around it
InitSweep == InitCall({<<p>> : p \in IndexedPackages})

NextSweep ==
    \/ InsertCall
    \/ \E w \in CheckpointSequenceNumbers : Publish(w) /\ UNCHANGED <<call_vars, indexed, obj_vars>>
    \/ remove_committed /\ UNCHANGED <<call_vars, indexed, obj_vars>>
    \/ \E id \in ModuleIds : GetModuleById(id) /\ UNCHANGED <<call_vars, indexed, obj_vars>>
    \/ UseModule /\ UNCHANGED <<call_vars, indexed, obj_vars>>

SpecSweep == InitSweep /\ [][NextSweep]_vars

\* ------------------------------------------------------------------------
\* The package cache with its task scheduled fairly: the interval keeps
\* ticking and the Mutex, when free, is granted to the task
\* ------------------------------------------------------------------------

\* a step of the task spawned by IndexingPackageCache::start
Task == remove_committed /\ UNCHANGED <<call_vars, indexed, obj_vars>>

NextLive ==
    \/ \E w \in CheckpointSequenceNumbers : Publish(w) /\ UNCHANGED <<call_vars, indexed, obj_vars>>
    \/ \E p \in IndexedPackages : InsertPackages(<<p>>) /\ UNCHANGED <<call_vars, indexed, obj_vars>>
    \/ Task

SpecLive == Init /\ [][NextLive]_vars /\ WF_vars(Task)

\* ------------------------------------------------------------------------
\* InMemObjectCache and TxChangesProcessor
\* ------------------------------------------------------------------------

ObjectIDs == {"o1", "o2"}

SequenceNumbers == 1..MaxVersion

Contents == {"x", "y"}

\* sui_types::object::Object, as far as the cache reads it: id(), version(),
\* and the rest of the object
Objects == [id : ObjectIDs, version : SequenceNumbers, data : Contents]

\* what an ObjectProvider call can end with: Ok(value), Err, or a panic
Ok(value) == [tag |-> "Ok", value |-> value, why |-> ""]

Err == [tag |-> "Err", value |-> None, why |-> ""]

Panic(why) == [tag |-> "panic", value |-> None, why |-> why]

\* id_map keeping the object of the higher version
insert_id_map_highest(idm, object) ==
    IF object.id \in DOMAIN idm /\ idm[object.id].version > object.version
    THEN idm ELSE MapInsert(idm, object.id, object)

\* seq_map keeping one version per identifier: the other versions are dropped
insert_seq_map_evicting(sqm, object) ==
    LET kept == {k \in DOMAIN sqm : k[1] # object.id}
    IN  MapInsert([k \in kept |-> sqm[k]], <<object.id, object.version>>, object)

\* InMemObjectCache::insert_object, on the two maps
insert_id_map(idm, object) == MapInsert(idm, object.id, object)

insert_seq_map(sqm, object) == MapInsert(sqm, <<object.id, object.version>>, object)

\* InMemObjectCache::get
get(idm, sqm, id, version) ==
    IF version # None
    THEN IF <<id, Unwrap(version)>> \in DOMAIN sqm
         THEN Some(sqm[<<id, Unwrap(version)>>]) ELSE None
    ELSE IF id \in DOMAIN idm THEN Some(idm[id]) ELSE None

\* get_object falling back to the by-identifier index on a miss
get_object_or_latest(idm, sqm, id, version) ==
    LET object == get(idm, sqm, id, Some(version))
        latest == get(idm, sqm, id, None)
    IN  IF object # None THEN Ok(Unwrap(object))
        ELSE IF latest # None THEN Ok(Unwrap(latest))
        ELSE Panic("not found (get_object)")

\* ObjectProvider::get_object
get_object(idm, sqm, id, version) ==
    LET object == get(idm, sqm, id, Some(version))
    IN  IF object # None THEN Ok(Unwrap(object))
        ELSE Panic("not found (get_object)")

\* find_object_lt_or_eq_version returning the latest version whatever the bound
find_object_any_version(idm, sqm, id, version) ==
    LET exact == get(idm, sqm, id, Some(version))
        latest == get(idm, sqm, id, None)
    IN  IF exact # None THEN Ok(exact)
        ELSE IF latest # None THEN Ok(latest)
        ELSE Panic("not found (find_object_lt_or_eq_version)")

\* find_object_lt_or_eq_version ending a miss with Ok(None)
find_object_or_none(idm, sqm, id, version) ==
    LET exact == get(idm, sqm, id, Some(version))
        latest == get(idm, sqm, id, None)
    IN  IF exact # None THEN Ok(exact)
        ELSE IF latest # None /\ Unwrap(latest).version <= version THEN Ok(latest)
        ELSE Ok(None)

\* find_object_lt_or_eq_version searching the versioned index for the greatest
\* version of id at or below the bound
find_object_greatest_below(idm, sqm, id, version) ==
    LET below == {k \in DOMAIN sqm : k[1] = id /\ k[2] <= version}
        best == CHOOSE k \in below : \A k2 \in below : k2[2] <= k[2]
    IN  IF below # {} THEN Ok(Some(sqm[best]))
        ELSE Panic("not found (find_object_lt_or_eq_version)")

\* ObjectProvider::find_object_lt_or_eq_version
find_object_lt_or_eq_version(idm, sqm, id, version) ==
    LET exact == get(idm, sqm, id, Some(version))
        latest == get(idm, sqm, id, None)
    IN  IF exact # None THEN Ok(exact)
        ELSE IF latest # None /\ Unwrap(latest).version > version
             THEN Panic("found a higher version")
        ELSE IF latest # None /\ Unwrap(latest).version <= version
             THEN Ok(latest)
        ELSE Panic("not found (find_object_lt_or_eq_version)")

\* one round of the loop of TxChangesProcessor::new:
\* object_cache.insert_object(obj.clone())
NewInsertObject(object) ==
    /\ tx_pc = "new"
    /\ Len(objects) < MaxObjects
    /\ id_map' = insert_id_map(id_map, object)
    /\ seq_map' = insert_seq_map(seq_map, object)
    /\ objects' = Append(objects, object)
    /\ UNCHANGED <<tx_pc, call>>

\* TxChangesProcessor::new returns: the cache is handed to the processor
NewReturns ==
    /\ tx_pc = "new"
    /\ tx_pc' = "ready"
    /\ UNCHANGED <<id_map, seq_map, objects, call>>

\* an ObjectProvider call that keeps what the fallback of the
\* nearest-version-at-or-below lookup found, under the version asked for
ReturnsAndCaches(op, id, version, outcome) ==
    /\ tx_pc = "ready"
    /\ call' = Some([op |-> op, id |-> id, version |-> version, outcome |-> outcome])
    /\ tx_pc' = IF outcome.tag = "panic" THEN "panicked" ELSE "called"
    /\ seq_map' = IF op = "find_object_lt_or_eq_version" /\ outcome.tag = "Ok"
                  THEN MapInsert(seq_map, <<id, version>>, Unwrap(outcome.value))
                  ELSE seq_map
    /\ UNCHANGED <<id_map, objects>>

\* an ObjectProvider call ends with outcome: a panic ends the processing of
\* the checkpoint
Returns(op, id, version, outcome) ==
    /\ tx_pc = "ready"
    /\ call' = Some([op |-> op, id |-> id, version |-> version, outcome |-> outcome])
    /\ tx_pc' = IF outcome.tag = "panic" THEN "panicked" ELSE "called"
    /\ UNCHANGED <<id_map, seq_map, objects>>

GetObject(id, version) ==
    Returns("get_object", id, version, get_object(id_map, seq_map, id, version))

FindObjectLtOrEqVersion(id, version) ==
    Returns("find_object_lt_or_eq_version", id, version,
            find_object_lt_or_eq_version(id_map, seq_map, id, version))

\* the change-computation algorithm takes the result and goes on
UseObject ==
    /\ tx_pc = "called"
    /\ tx_pc' = "ready"
    /\ call' = None
    /\ UNCHANGED <<id_map, seq_map, objects>>

NextObj ==
    \/ \E o \in Objects : NewInsertObject(o) /\ UNCHANGED <<pkg_vars, call_vars, indexed, more_vars>>
    \/ NewReturns /\ UNCHANGED <<pkg_vars, call_vars, indexed, more_vars>>
    \/ \E id \in ObjectIDs, v \in SequenceNumbers :
          GetObject(id, v) /\ UNCHANGED <<pkg_vars, call_vars, indexed, more_vars>>
    \/ \E id \in ObjectIDs, v \in SequenceNumbers :
          FindObjectLtOrEqVersion(id, v) /\ UNCHANGED <<pkg_vars, call_vars, indexed, more_vars>>
    \/ UseObject /\ UNCHANGED <<pkg_vars, call_vars, indexed, more_vars>>

SpecObj == Init /\ [][NextObj]_vars

\* ------------------------------------------------------------------------
\* TxChangesProcessor::get_changes
\* ------------------------------------------------------------------------

\* a transaction changes and removes at most MaxRefs objects in all
MaxRefs == 1

ObjectRefs == ObjectIDs \X SequenceNumbers

\* TransactionData, as far as get_changes reads it: sender() and
\* input_objects(), which is Err when the input-object data is invalid
TransactionDatas == [sender : {"s"}, input_objects : {Err, Ok({"o1"})}]

\* TransactionEffects, as far as get_changes reads it
TransactionEffectss ==
    {[all_changed_objects |-> SubSeq(refs, 1, n),
      all_removed_objects |-> SubSeq(refs, n + 1, Len(refs))] :
        <<refs, n>> \in {<<refs, n>> \in SeqsUpTo(ObjectRefs, MaxRefs) \X (0..MaxRefs) :
                            n <= Len(refs)}}

\* the outcomes of the provider calls an algorithm makes, in order
ProviderCalls(idm, sqm, effects) ==
    [i \in 1..Len(effects.all_changed_objects) |->
        get_object(idm, sqm, effects.all_changed_objects[i][1],
                   effects.all_changed_objects[i][2])]
    \o [i \in 1..Len(effects.all_removed_objects) |->
        find_object_lt_or_eq_version(idm, sqm, effects.all_removed_objects[i][1],
                                     effects.all_removed_objects[i][2])]

\* the object-change algorithm: it resolves the changed objects by exact
\* lookup and the removed ones by nearest-version-at-or-below lookup, and
\* returns change records or a recoverable error; a fatal lookup ends it
get_object_changes(idm, sqm, sender, effects, fails) ==
    LET calls == ProviderCalls(idm, sqm, effects)
    IN  IF \E i \in 1..Len(calls) : calls[i].tag = "panic"
        THEN calls[CHOOSE i \in 1..Len(calls) :
                     calls[i].tag = "panic" /\ \A j \in 1..(i - 1) : calls[j].tag # "panic"]
        ELSE IF fails THEN Err
        ELSE Ok([i \in 1..Len(calls) |-> [sender |-> sender, object |-> calls[i].value]])

\* the balance-change algorithm: it resolves the changed objects by exact
\* lookup and returns balance changes or a recoverable error
get_balance_changes_from_effect(idm, sqm, effects, input_objects, fails) ==
    LET calls == ProviderCalls(idm, sqm, [effects EXCEPT !.all_removed_objects = <<>>])
    IN  IF \E i \in 1..Len(calls) : calls[i].tag = "panic"
        THEN Panic("not found (get_object)")
        ELSE IF fails THEN Err
        ELSE Ok([i \in 1..Len(calls) |-> [owner |-> input_objects, object |-> calls[i].value]])

\* get_changes with tx.input_objects()? in place of the unwrap_or_else(panic!)
get_changes_propagating(idm, sqm, tx, effects, object_fails, balance_fails) ==
    LET object_change == get_object_changes(idm, sqm, tx.sender, effects, object_fails)
    IN  IF object_change.tag # "Ok" THEN object_change
        ELSE IF tx.input_objects.tag = "Err" THEN Err
        ELSE LET balance_change ==
                     get_balance_changes_from_effect(idm, sqm, effects,
                                                     tx.input_objects.value, balance_fails)
             IN  IF balance_change.tag # "Ok" THEN balance_change
                 ELSE Ok(<<balance_change.value, object_change.value>>)

\* TxChangesProcessor::get_changes: get_object_changes(..).await? comes first,
\* then tx.input_objects() is unwrapped as an argument of
\* get_balance_changes_from_effect(..).await?
get_changes(idm, sqm, tx, effects, object_fails, balance_fails) ==
    LET object_change == get_object_changes(idm, sqm, tx.sender, effects, object_fails)
    IN  IF object_change.tag # "Ok" THEN object_change
        ELSE IF tx.input_objects.tag = "Err"
             THEN Panic("Checkpointed tx has invalid input objects")
        ELSE LET balance_change ==
                     get_balance_changes_from_effect(idm, sqm, effects,
                                                     tx.input_objects.value, balance_fails)
             IN  IF balance_change.tag # "Ok" THEN balance_change
                 ELSE Ok(<<balance_change.value, object_change.value>>)

\* processor.get_changes(tx, effects, tx_digest).await
GetChanges(tx, effects, object_fails, balance_fails) ==
    /\ tx_pc = "ready"
    /\ LET outcome == get_changes(id_map, seq_map, tx, effects, object_fails, balance_fails)
       IN  /\ changes' = Some([tx |-> tx, effects |-> effects,
                                object_change |->
                                    get_object_changes(id_map, seq_map, tx.sender,
                                                       effects, object_fails).tag,
                                outcome |-> outcome])
           /\ tx_pc' = IF outcome.tag = "panic" THEN "panicked" ELSE "called"
    /\ UNCHANGED <<id_map, seq_map, objects, call, cache_vars, epoch_vars>>

\* the checkpoint-processing loop takes the result and goes on
UseChanges ==
    /\ tx_pc = "called"
    /\ changes # None
    /\ tx_pc' = "ready"
    /\ changes' = None
    /\ UNCHANGED <<id_map, seq_map, objects, call, cache_vars, epoch_vars>>

\* the objects of one checkpoint: an identifier and a version name one object
CheckpointObjects == {o \in Objects : o.data = "x"}

NextChanges ==
    \/ \E o \in CheckpointObjects :
          NewInsertObject(o) /\ UNCHANGED <<pkg_vars, call_vars, indexed, more_vars>>
    \/ NewReturns /\ UNCHANGED <<pkg_vars, call_vars, indexed, more_vars>>
    \/ /\ tx_pc = "ready"
       /\ \E tx \in TransactionDatas, effects \in TransactionEffectss, f1, f2 \in BOOLEAN :
             GetChanges(tx, effects, f1, f2)
       /\ UNCHANGED <<pkg_vars, call_vars, indexed>>
    \/ UseChanges /\ UNCHANGED <<pkg_vars, call_vars, indexed>>

SpecChanges == Init /\ [][NextChanges]_vars

\* ------------------------------------------------------------------------
\* TxChangesProcessor: construction, then lookups and get_changes calls in
\* any order
\* ------------------------------------------------------------------------

NextResolve ==
    \/ \E o \in CheckpointObjects :
          NewInsertObject(o) /\ UNCHANGED <<pkg_vars, call_vars, indexed, more_vars>>
    \/ NewReturns /\ UNCHANGED <<pkg_vars, call_vars, indexed, more_vars>>
    \/ \E id \in ObjectIDs, v \in SequenceNumbers :
          GetObject(id, v) /\ UNCHANGED <<pkg_vars, call_vars, indexed, more_vars>>
    \/ \E id \in ObjectIDs, v \in SequenceNumbers :
          FindObjectLtOrEqVersion(id, v) /\ UNCHANGED <<pkg_vars, call_vars, indexed, more_vars>>
    \/ call # None /\ UseObject /\ UNCHANGED <<pkg_vars, call_vars, indexed, more_vars>>
    \/ /\ tx_pc = "ready"
       /\ \E tx \in TransactionDatas, effects \in TransactionEffectss, f1, f2 \in BOOLEAN :
             GetChanges(tx, effects, f1, f2)
       /\ UNCHANGED <<pkg_vars, call_vars, indexed>>
    \/ UseChanges /\ UNCHANGED <<pkg_vars, call_vars, indexed>>

SpecResolve == Init /\ [][NextResolve]_vars

\* ------------------------------------------------------------------------
\* EpochEndIndexingObjectStore
\* ------------------------------------------------------------------------

\* data.output_objects(): the output objects of one checkpoint, in order
OutputObjectLists == SeqsUpTo(Objects, MaxObjects)

\* ObjectStore::get_object taking the last object of the list with the identifier
store_get_object_last(objs, object_id) ==
    LET hits == {i \in 1..Len(objs) : objs[i].id = object_id}
    IN  IF hits = {} THEN Ok(None)
        ELSE Ok(Some(objs[CHOOSE i \in hits : \A j \in hits : j <= i]))

\* ObjectStore::get_object: self.objects.iter().find(|o| o.id() == *object_id)
RECURSIVE store_get_object(_, _)
store_get_object(objs, object_id) ==
    IF objs = <<>> THEN Ok(None)
    ELSE IF Head(objs).id = object_id THEN Ok(Some(Head(objs)))
    ELSE store_get_object(Tail(objs), object_id)

\* ObjectStore::get_object_by_key:
\* self.objects.iter().find(|o| o.id() == *object_id && o.version() == version)
RECURSIVE store_get_object_by_key(_, _, _)
store_get_object_by_key(objs, object_id, version) ==
    IF objs = <<>> THEN Ok(None)
    ELSE IF Head(objs).id = object_id /\ Head(objs).version = version
         THEN Ok(Some(Head(objs)))
    ELSE store_get_object_by_key(Tail(objs), object_id, version)

\* EpochEndIndexingObjectStore::new(data)
EpochNew(output_objects) ==
    /\ epoch_objects = None
    /\ epoch_objects' = Some(output_objects)
    /\ UNCHANGED epoch_ret

\* store.get_object(object_id)
StoreGetObject(object_id) ==
    /\ epoch_objects # None
    /\ epoch_ret = None
    /\ epoch_ret' = Some([op |-> "get_object", id |-> object_id, version |-> None,
                          outcome |-> store_get_object(Unwrap(epoch_objects), object_id)])
    /\ UNCHANGED epoch_objects

\* store.get_object_by_key(object_id, version)
StoreGetObjectByKey(object_id, version) ==
    /\ epoch_objects # None
    /\ epoch_ret = None
    /\ epoch_ret' = Some([op |-> "get_object_by_key", id |-> object_id,
                          version |-> Some(version),
                          outcome |-> store_get_object_by_key(Unwrap(epoch_objects),
                                                              object_id, version)])
    /\ UNCHANGED epoch_objects

\* the epoch-end extraction takes the result (absence is tolerated) and goes on
StoreUse ==
    /\ epoch_ret # None
    /\ epoch_ret' = None
    /\ UNCHANGED epoch_objects

NextEpoch ==
    \/ /\ epoch_objects = None
       /\ \E objs \in OutputObjectLists : EpochNew(objs)
       /\ UNCHANGED <<pkg_vars, call_vars, indexed, proc_vars, changes, cache_vars>>
    \/ \E id \in ObjectIDs :
          StoreGetObject(id)
          /\ UNCHANGED <<pkg_vars, call_vars, indexed, proc_vars, changes, cache_vars>>
    \/ \E id \in ObjectIDs, v \in SequenceNumbers :
          StoreGetObjectByKey(id, v)
          /\ UNCHANGED <<pkg_vars, call_vars, indexed, proc_vars, changes, cache_vars>>
    \/ StoreUse /\ UNCHANGED <<pkg_vars, call_vars, indexed, proc_vars, changes, cache_vars>>

SpecEpoch == Init /\ [][NextEpoch]_vars

\* ------------------------------------------------------------------------
\* InMemObjectCache on its own: instances are created, filled and read
\* ------------------------------------------------------------------------

\* the versions get can be asked for: Some(version) or None
VersionArgs == {None} \cup {Some(v) : v \in SequenceNumbers}

\* an InMemObjectCache whose maps live where an earlier instance's maps live
InMemObjectCache_new_shared(heap) == 1

\* InMemObjectCache::new: HashMap::new() twice, at a place no instance uses
InMemObjectCache_new(heap) == Cardinality(DOMAIN heap) + 1

\* insert_object with a key that is already present taken for a conflict: the
\* entry of the versioned index is dropped
insert_object_conflict(cache, object) ==
    [id_map |-> insert_id_map(cache.id_map, object),
     seq_map |-> IF <<object.id, object.version>> \in DOMAIN cache.seq_map
                 THEN MapRemove(cache.seq_map, <<object.id, object.version>>)
                 ELSE insert_seq_map(cache.seq_map, object)]

\* insert_object keeping the object the by-identifier index already holds
\* (entry().or_insert() in place of insert())
insert_object_first_seen(cache, object) ==
    [id_map |-> MapInsertIfAbsent(cache.id_map, object.id, object),
     seq_map |-> insert_seq_map(cache.seq_map, object)]

\* InMemObjectCache::insert_object
insert_object(cache, object) ==
    [id_map |-> insert_id_map(cache.id_map, object),
     seq_map |-> insert_seq_map(cache.seq_map, object)]

RECURSIVE TotalLen(_)
TotalLen(seqs) == IF seqs = <<>> THEN 0 ELSE Len(Head(seqs)) + TotalLen(Tail(seqs))

\* the i-th instance
CacheOf(i) == caches[inst[i]]

\* let mut object_cache = InMemObjectCache::new();
CacheNew ==
    /\ Len(inst) < MaxCaches
    /\ got = None
    /\ LET a == InMemObjectCache_new(caches)
       IN  /\ inst' = Append(inst, a)
           /\ caches' = MapInsert(caches, a, [id_map |-> <<>>, seq_map |-> <<>>])
    /\ inserted' = Append(inserted, <<>>)
    /\ UNCHANGED got

\* object_cache.insert_object(object), on the i-th instance
CacheInsertObject(i, object) ==
    /\ i \in 1..Len(inst)
    /\ got = None
    /\ TotalLen(inserted) < MaxObjects
    /\ caches' = [caches EXCEPT ![inst[i]] = insert_object(@, object)]
    /\ inserted' = [inserted EXCEPT ![i] = Append(@, object)]
    /\ UNCHANGED <<inst, got>>

\* object_cache.get(id, version), on the i-th instance
CacheGet(i, id, version) ==
    /\ i \in 1..Len(inst)
    /\ got = None
    /\ got' = Some([instance |-> i, id |-> id, version |-> version,
                    result |-> get(CacheOf(i).id_map, CacheOf(i).seq_map, id, version)])
    /\ UNCHANGED <<caches, inst, inserted>>

\* the owner of the cache takes the result and goes on
CacheUse ==
    /\ got # None
    /\ got' = None
    /\ UNCHANGED <<caches, inst, inserted>>

NextCache ==
    \/ CacheNew /\ UNCHANGED <<pkg_vars, call_vars, indexed, proc_vars, changes, epoch_vars>>
    \/ \E i \in 1..MaxCaches, o \in Objects :
          CacheInsertObject(i, o)
          /\ UNCHANGED <<pkg_vars, call_vars, indexed, proc_vars, changes, epoch_vars>>
    \/ \E i \in 1..MaxCaches, id \in ObjectIDs, v \in VersionArgs :
          CacheGet(i, id, v)
          /\ UNCHANGED <<pkg_vars, call_vars, indexed, proc_vars, changes, epoch_vars>>
    \/ CacheUse /\ UNCHANGED <<pkg_vars, call_vars, indexed, proc_vars, changes, epoch_vars>>

SpecCache == Init /\ [][NextCache]_vars

\* ------------------------------------------------------------------------
\* Properties of the GC sweep
\* ------------------------------------------------------------------------

\* the step that ends a sweep: everything in to_remove is deleted, the guard drops
SweepEnds == gc_pc = "delete" /\ to_remove = {} /\ gc_pc' = "sleep"

\* the watermark the running iteration read at its tick
ObservedWatermark == Unwrap(Unwrap(observed))

\* what C1 says of the step that ends a sweep
SweepPost ==
    /\ observed # None
    /\ Unwrap(observed) # None
    /\ DOMAIN packages' \subseteq DOMAIN Unwrap(sweep_start)
    /\ \A k \in DOMAIN Unwrap(sweep_start) :
          (k \in DOMAIN packages' /\ packages'[k] = Unwrap(sweep_start)[k])
          <=> (Unwrap(sweep_start)[k].checkpoint_seq > ObservedWatermark)

\* what C1 says of a step taken while the task sleeps and the watermark is unset
UnsetTickPost ==
    /\ gc_pc' = "sleep"
    /\ DOMAIN packages \subseteq DOMAIN packages'

\* what C1 says of the step that starts an iteration past the let-else
TickPost ==
    /\ commit_watcher # None
    /\ observed' = Some(commit_watcher)
    /\ committed_checkpoint' = commit_watcher

\* C1: an entry that is in the cache when a sweep takes the lock, with tag T, is
\* in the cache when the sweep ends iff T > W, W being the watermark the
\* sweep's tick observed; a tick that observes an unset watermark starts no
\* sweep and removes nothing.
C1_SweepKeepsExactlyNewer ==
    [][ /\ (SweepEnds => SweepPost)
        /\ ((gc_pc = "sleep" /\ commit_watcher = None) => UnsetTickPost)
        /\ ((gc_pc = "sleep" /\ gc_pc' = "lock") => TickPost)
      ]_vars

\* a sweep is about to end having removed one entry and kept another
C1_Witness ==
    /\ gc_pc = "delete" /\ to_remove = {} /\ sweep_start # None
    /\ \E k \in DOMAIN Unwrap(sweep_start) : k \notin DOMAIN packages
    /\ \E k \in DOMAIN Unwrap(sweep_start) : k \in DOMAIN packages

\* what C3 says of a step taken between the scan and the last delete
SweepStepPost ==
    /\ mutex = "gc"
    /\ ret' \in {ret, None}
    /\ proc_pc' \in {proc_pc, "running"}
    /\ poisoned' = poisoned
    /\ DOMAIN packages' \subseteq DOMAIN packages
    /\ \A k \in DOMAIN packages' : packages'[k] = packages[k]
    /\ \A k \in DOMAIN packages \ DOMAIN packages' :
          /\ k \in to_remove
          /\ k \in DOMAIN Unwrap(sweep_start)
          /\ packages[k] = Unwrap(sweep_start)[k]
          /\ packages[k].checkpoint_seq <= Unwrap(committed_checkpoint)

\* the sweep is between its scan and its last delete
SweepRuns == gc_pc \in {"scan", "delete"}

\* C3: from the scan to the last delete the sweep holds the Mutex and no insert
\* or lookup takes effect: the cache only loses keys of to_remove, each still
\* the entry that was scanned, and no call of the processing path returns.
C3_SweepIsAtomic == [][SweepRuns => SweepStepPost]_vars

\* a sweep is between two deletes while the processing path is alive
C3_Witness ==
    /\ gc_pc = "delete" /\ mutex = "gc" /\ proc_pc = "running"
    /\ to_remove # {}
    /\ \E k \in DOMAIN Unwrap(sweep_start) : k \notin DOMAIN packages
    /\ \E k \in DOMAIN packages : k \notin to_remove

\* C5: a sweep that follows a finished sweep with the same watermark, with no
\* insert in between, ends with the cache it started with.
C5_SecondSweepRemovesNothing ==
    [][(SweepEnds /\ prev_sweep # None /\ prev_sweep = committed_checkpoint)
           => (packages' = Unwrap(sweep_start))]_vars

\* the second of two sweeps with the same watermark is about to end, and the
\* cache is not empty
C5_Witness ==
    /\ gc_pc = "delete" /\ to_remove = {} /\ mutex = "gc"
    /\ prev_sweep # None /\ prev_sweep = committed_checkpoint
    /\ packages # <<>>

\* ------------------------------------------------------------------------
\* Properties of get_module_by_id
\* ------------------------------------------------------------------------

KeyOf(id) == <<id.address, id.name>>

\* the step in which a get_module_by_id call returns
LookupReturns == proc_pc = "running" /\ proc_pc' = "looked_up"

\* what C7 says of the step in which a lookup returns
LookupPost ==
    /\ ret' # None
    /\ (KeyOf(Unwrap(ret').id) \notin DOMAIN packages) => (Unwrap(ret').module = None)
    /\ packages' = packages
    /\ poisoned' = poisoned
    /\ mutex' = mutex

\* C7: a lookup of a key that is not in the cache returns None, does not
\* panic, and leaves the cache (and the Mutex) as it was.
C7_MissReturnsNone == [][LookupReturns => LookupPost]_vars

\* a lookup missed on a cache that holds other keys
C7_Witness ==
    /\ ret # None
    /\ Unwrap(ret).module = None
    /\ packages # <<>>

\* ------------------------------------------------------------------------
\* Properties of the cache under the upstream's ordering
\* ------------------------------------------------------------------------

\* what C2 says of any step: an entry whose tag the watermark has not reached
\* is still resolvable after the step, with a tag that is not lower
NewerEntriesStay ==
    \A k \in DOMAIN packages :
        IsBelow(commit_watcher, packages[k].checkpoint_seq) =>
            /\ k \in DOMAIN packages'
            /\ packages'[k].checkpoint_seq >= packages[k].checkpoint_seq
            /\ get_module_by_id(packages', [address |-> k[1], name |-> k[2]]) # None

\* C2: under the upstream's ordering, in every interleaving of inserts,
\* publications and sweeps, no step removes an entry whose tag is greater than
\* the published watermark (or any entry while the watermark is unset): a key
\* inserted with tag N stays resolvable at least until the watermark reaches N.
C2_NewerEntriesSurviveGC == [][NewerEntriesStay]_vars

\* a sweep that ticked on an older watermark is about to end: it removed an
\* entry and kept one the newer watermark has not reached
C2_Witness ==
    /\ gc_pc = "delete" /\ to_remove = {} /\ sweep_start # None
    /\ committed_checkpoint # commit_watcher
    /\ \E k \in DOMAIN Unwrap(sweep_start) : k \notin DOMAIN packages
    /\ \E k \in DOMAIN packages : packages[k].checkpoint_seq > Unwrap(commit_watcher)

\* ------------------------------------------------------------------------
\* Properties of insert_packages
\* ------------------------------------------------------------------------

\* package p has a module under key k
Carries(p, k) ==
    /\ p.package_id = k[1]
    /\ \E j \in 1..Len(p.serialized_module_map) : p.serialized_module_map[j][1] = k[2]

\* the module of p under key k, decoded
DecodedModule(p, k) ==
    LET mm == p.serialized_module_map
        j == CHOOSE j \in 1..Len(mm) : mm[j][1] = k[2]
    IN  deserialize_with_defaults(mm[j][2]).module

KeysOf(p) ==
    {<<p.package_id, p.serialized_module_map[j][1]>> : j \in 1..Len(p.serialized_module_map)}

\* some module of some package of the slice fails to decode
DecodeFails(batch) ==
    \E i \in 1..Len(batch) : \E j \in 1..Len(batch[i].serialized_module_map) :
        ~deserialize_with_defaults(batch[i].serialized_module_map[j][2]).ok

\* no package after the i-th carries key k
IsLastCarrier(batch, i, k) == \A i2 \in (i + 1)..Len(batch) : ~Carries(batch[i2], k)

\* cache holds p's module under k, tagged with p's checkpoint, and the lookup
\* returns it
HoldsModuleOf(cache, p, k) ==
    /\ k \in DOMAIN cache
    /\ cache[k] = [module |-> DecodedModule(p, k),
                   checkpoint_seq |-> p.checkpoint_sequence_number]
    /\ get_module_by_id(cache, [address |-> k[1], name |-> k[2]])
         = Some(DecodedModule(p, k))

\* the step of the call under study
CallStep == pre_packages = None /\ pre_packages' # None

\* the call under study has returned normally
CallSucceeded == pre_packages # None /\ ~poisoned

TheBatch == Unwrap(arg_batch)

\* C4: a key cached with tag A is inserted again from a package of checkpoint B;
\* the first sweep after that, with a watermark W where A <= W < B, ends with
\* the key holding checkpoint B's module and tag (the lookup returns that
\* module), and with no entry tagged W or lower.
C4_SweepKeepsNewerInsert ==
    [][(SweepEnds /\ CallSucceeded /\ prev_sweep = None) =>
         /\ \A k \in DOMAIN Unwrap(pre_packages) :
               (/\ Carries(TheBatch[Len(TheBatch)], k)
                /\ Unwrap(pre_packages)[k].checkpoint_seq <= ObservedWatermark
                /\ ObservedWatermark < TheBatch[Len(TheBatch)].checkpoint_sequence_number)
               => HoldsModuleOf(packages', TheBatch[Len(TheBatch)], k)
         /\ \A k \in DOMAIN packages' : packages'[k].checkpoint_seq > ObservedWatermark
      ]_vars

\* the first sweep after the second insert is about to end, with A < W < B
C4_Witness ==
    /\ gc_pc = "delete" /\ to_remove = {} /\ mutex = "gc"
    /\ CallSucceeded /\ prev_sweep = None
    /\ \E k \in DOMAIN Unwrap(pre_packages) :
          /\ Carries(TheBatch[1], k)
          /\ Unwrap(pre_packages)[k].checkpoint_seq < ObservedWatermark
          /\ ObservedWatermark < TheBatch[1].checkpoint_sequence_number
          /\ k \in DOMAIN packages

\* C6 as stated: after a successful insert_packages, for every package of the
\* slice and every module of it, the cache holds the key tagged with that
\* package's checkpoint and the lookup returns that module.
C6_EveryPackageCached ==
    [][(CallStep /\ ~poisoned') =>
         \A i \in 1..Len(TheBatch) : \A k \in KeysOf(TheBatch[i]) :
             HoldsModuleOf(packages', TheBatch[i], k)
      ]_vars

\* what the amended C6 says of the step of a successful call
InsertPost ==
    \A i \in 1..Len(TheBatch) : \A k \in KeysOf(TheBatch[i]) :
        IsLastCarrier(TheBatch, i, k) => HoldsModuleOf(packages', TheBatch[i], k)

\* what the amended C6 says of a lookup that returns after the call
LookupAfterInsertPost ==
    \A i \in 1..Len(TheBatch) : \A k \in KeysOf(TheBatch[i]) :
        (IsLastCarrier(TheBatch, i, k) /\ KeyOf(Unwrap(ret').id) = k)
        => (Unwrap(ret').module = Some(DecodedModule(TheBatch[i], k)))

\* C6, amended: after a successful insert_packages, for every package of the
\* slice and every module of it that no later package of the slice carries
\* under the same key, the cache holds the key tagged with that package's
\* checkpoint, and get_module_by_id returns that module for as long as no
\* sweep or insert touches the key.
C6_LastCarrierCached ==
    [][ /\ ((CallStep /\ ~poisoned') => InsertPost)
        /\ ((LookupReturns /\ CallSucceeded) => LookupAfterInsertPost)
      ]_vars

\* a lookup returned the module of the second of two packages of the slice
\* that carry the same key with different checkpoints
C6_Witness ==
    /\ CallSucceeded /\ ret # None
    /\ Len(TheBatch) = 2
    /\ Carries(TheBatch[1], KeyOf(Unwrap(ret).id))
    /\ Carries(TheBatch[2], KeyOf(Unwrap(ret).id))
    /\ TheBatch[1].checkpoint_sequence_number # TheBatch[2].checkpoint_sequence_number
    /\ Unwrap(ret).module = Some(DecodedModule(TheBatch[2], KeyOf(Unwrap(ret).id)))

\* C8: when a module of the slice fails to decode, insert_packages panics and
\* the package map is exactly what it was before the call.
C8_DecodeFailureAbortsWhole ==
    [][(CallStep /\ DecodeFails(TheBatch)) =>
         (packages' = packages /\ proc_pc' = "panicked" /\ poisoned')]_vars

\* the call panicked on a slice whose first package decodes, on a cache that
\* was not empty
C8_Witness ==
    /\ pre_packages # None /\ proc_pc = "panicked"
    /\ Len(TheBatch) = 2
    /\ ~DecodeFails(<<TheBatch[1]>>)
    /\ packages # <<>>

\* the keys the packages of the slice carry
BatchKeys(batch) == UNION {KeysOf(batch[i]) : i \in 1..Len(batch)}

\* the last package of the slice that carries key k
LastCarrier(batch, k) ==
    batch[CHOOSE i \in 1..Len(batch) :
            Carries(batch[i], k) /\ \A j \in 1..Len(batch) : Carries(batch[j], k) => j <= i]

\* what C20 says of the step of a successful call
BulkReplacePost ==
    /\ DOMAIN packages' = DOMAIN packages \cup BatchKeys(TheBatch)
    /\ \A k \in BatchKeys(TheBatch) :
          /\ packages'[k].module = DecodedModule(LastCarrier(TheBatch, k), k)
          /\ packages'[k].checkpoint_seq = LastCarrier(TheBatch, k).checkpoint_sequence_number
    /\ \A k \in DOMAIN packages \ BatchKeys(TheBatch) : packages'[k] = packages[k]

\* C20: after a successful insert_packages(batch) every key occurring in the
\* batch maps to the module and the checkpoint tag of the last package of the
\* batch carrying it, also when that tag is lower than the stored one; every
\* other key keeps its module and tag, and no key is removed.
C20_BulkReplaceWithFrame == [][(CallStep /\ ~poisoned') => BulkReplacePost]_vars

\* the call replaced an entry by one with a lower tag and left another key alone
C20_Witness ==
    /\ CallSucceeded
    /\ \E k \in DOMAIN Unwrap(pre_packages) \cap BatchKeys(TheBatch) :
          /\ Unwrap(pre_packages)[k].checkpoint_seq > packages[k].checkpoint_seq
          /\ packages[k].checkpoint_seq = LastCarrier(TheBatch, k).checkpoint_sequence_number
    /\ \E k \in DOMAIN Unwrap(pre_packages) \ BatchKeys(TheBatch) :
          packages[k] = Unwrap(pre_packages)[k]

\* ------------------------------------------------------------------------
\* Properties of find_object_lt_or_eq_version
\* ------------------------------------------------------------------------

\* the call that returned last is a nearest-version-at-or-below lookup
FindReturned == call # None /\ Unwrap(call).op = "find_object_lt_or_eq_version"

TheCall == Unwrap(call)

\* C9: the lookup for (id, bound) returns the object under (id, bound) of the
\* versioned index when there is one; otherwise the object the by-identifier
\* index holds for id when its version is <= bound; otherwise it panics. It
\* never returns Ok(None) and never an error value.
C9_FindDecisionProcedure ==
    FindReturned =>
        LET id == TheCall.id
            bound == TheCall.version
            out == TheCall.outcome
        IN  /\ out.tag # "Err"
            /\ ~(out.tag = "Ok" /\ out.value = None)
            /\ IF <<id, bound>> \in DOMAIN seq_map
               THEN out = Ok(Some(seq_map[<<id, bound>>]))
               ELSE IF id \in DOMAIN id_map /\ id_map[id].version <= bound
               THEN out = Ok(Some(id_map[id]))
               ELSE out.tag = "panic"

\* a lookup fell back to the by-identifier index and returned a lower version
C9_Witness ==
    /\ FindReturned
    /\ <<TheCall.id, TheCall.version>> \notin DOMAIN seq_map
    /\ TheCall.outcome.tag = "Ok"
    /\ Unwrap(TheCall.outcome.value).version < TheCall.version

\* the versions of id among the objects inserted so far
InsertedVersions(id) == {objects[i].version : i \in {j \in 1..Len(objects) : objects[j].id = id}}

\* C10: every object the lookup for (id, bound) returns has identifier id and a
\* version <= bound, and was inserted; when every inserted version of id
\* exceeds the bound, the lookup panics.
C10_FindNeverWrong ==
    FindReturned =>
        LET id == TheCall.id
            bound == TheCall.version
            out == TheCall.outcome
        IN  /\ out.tag = "Ok" =>
                /\ out.value # None
                /\ Unwrap(out.value).id = id
                /\ Unwrap(out.value).version <= bound
                /\ \E i \in 1..Len(objects) : objects[i] = Unwrap(out.value)
            /\ (InsertedVersions(id) # {} /\ \A v \in InsertedVersions(id) : v > bound)
                => out.tag = "panic"

\* a lookup below every inserted version of an identifier with two versions panicked
C10_Witness ==
    /\ FindReturned
    /\ Cardinality(InsertedVersions(TheCall.id)) = 2
    /\ \A v \in InsertedVersions(TheCall.id) : v > TheCall.version
    /\ TheCall.outcome.tag = "panic"

\* the inserted versions of id that are at or below bound
VersionsAtOrBelow(id, bound) == {v \in InsertedVersions(id) : v <= bound}

\* the greatest inserted version of id at or below bound
GreatestAtOrBelow(id, bound) ==
    CHOOSE v \in VersionsAtOrBelow(id, bound) : \A u \in VersionsAtOrBelow(id, bound) : u <= v

\* the positions in objects of the inserts of id, and of (id, version)
InsertsOf(id) == {i \in 1..Len(objects) : objects[i].id = id}

InsertsOfKey(id, version) == {i \in InsertsOf(id) : objects[i].version = version}

\* the object of the last insert among the positions ps
LastOf(ps) == objects[CHOOSE i \in ps : \A j \in ps : j <= i]

\* C11 as stated: when some inserted version of id is <= bound, the lookup for
\* (id, bound) returns the inserted object of id with the greatest inserted
\* version that is <= bound.
C11_ReturnsGreatestAtOrBelow ==
    (FindReturned /\ VersionsAtOrBelow(TheCall.id, TheCall.version) # {}) =>
        /\ TheCall.outcome.tag = "Ok"
        /\ TheCall.outcome.value # None
        /\ Unwrap(TheCall.outcome.value).id = TheCall.id
        /\ Unwrap(TheCall.outcome.value).version
             = GreatestAtOrBelow(TheCall.id, TheCall.version)

\* C11, amended: when some inserted version of id is <= bound, the lookup for
\* (id, bound) returns the object inserted last under (id, bound) when bound
\* itself was inserted (the greatest version <= bound); otherwise it looks at
\* the object of id inserted last only: it returns that object when its version
\* is <= bound, whether or not a greater version <= bound was inserted before
\* it, and panics when its version exceeds the bound.
C11_ExactOrLastInserted ==
    (FindReturned /\ VersionsAtOrBelow(TheCall.id, TheCall.version) # {}) =>
        LET id == TheCall.id
            bound == TheCall.version
            out == TheCall.outcome
        IN  IF bound \in InsertedVersions(id)
            THEN /\ out = Ok(Some(LastOf(InsertsOfKey(id, bound))))
                 /\ bound = GreatestAtOrBelow(id, bound)
            ELSE IF LastOf(InsertsOf(id)).version <= bound
            THEN out = Ok(Some(LastOf(InsertsOf(id))))
            ELSE out.tag = "panic"

\* two versions of an identifier were inserted in increasing order and a lookup
\* with a bound above both returned the greater one
C11_Witness ==
    /\ FindReturned
    /\ Cardinality(InsertedVersions(TheCall.id)) = 2
    /\ TheCall.version \notin InsertedVersions(TheCall.id)
    /\ TheCall.outcome.tag = "Ok"
    /\ Unwrap(TheCall.outcome.value).version = GreatestAtOrBelow(TheCall.id, TheCall.version)
    /\ Unwrap(TheCall.outcome.value).version < TheCall.version

\* ------------------------------------------------------------------------
\* Properties of get_object
\* ------------------------------------------------------------------------

\* the call that returned last is an exact version lookup
GetReturned == call # None /\ Unwrap(call).op = "get_object"

\* C12: get_object(id, version) returns the object the versioned index holds
\* under (id, version), the one inserted last under that key, when there is
\* one; otherwise it panics: it returns no error value, and no object of
\* another version of id even when one is cached.
C12_GetObjectExactOrAbort ==
    GetReturned =>
        LET id == TheCall.id
            version == TheCall.version
            out == TheCall.outcome
        IN  /\ out.tag # "Err"
            /\ (<<id, version>> \in DOMAIN seq_map) <=> (version \in InsertedVersions(id))
            /\ IF <<id, version>> \in DOMAIN seq_map
               THEN /\ out = Ok(seq_map[<<id, version>>])
                    /\ out.value = LastOf(InsertsOfKey(id, version))
                    /\ out.value.id = id /\ out.value.version = version
               ELSE out.tag = "panic"

\* an exact lookup panicked on a version that was not inserted while another
\* version of the same identifier is cached
C12_Witness ==
    /\ GetReturned
    /\ TheCall.outcome.tag = "panic"
    /\ TheCall.id \in DOMAIN id_map
    /\ InsertedVersions(TheCall.id) # {}
    /\ TheCall.version \notin InsertedVersions(TheCall.id)

\* ------------------------------------------------------------------------
\* Properties of InMemObjectCache
\* ------------------------------------------------------------------------

TheGet == Unwrap(got)

\* what was given to insert_object on the instance the last get read
GivenTo == inserted[TheGet.instance]

\* the positions in GivenTo of the inserts of id, and of (id, version)
GivenOf(id) == {n \in 1..Len(GivenTo) : GivenTo[n].id = id}

GivenOfKey(id, version) == {n \in GivenOf(id) : GivenTo[n].version = version}

\* the object of the last insert among the positions ns
LastGiven(ns) == GivenTo[CHOOSE n \in ns : \A m \in ns : m <= n]

\* the get that returned last was given a version
ExactGot == got # None /\ TheGet.version # None

\* the get that returned last was given no version
LatestGot == got # None /\ TheGet.version = None

\* C13 as stated: for every inserted (identifier, version, object) triple
\* get(identifier, Some(version)) returns that exact object, and for a pair
\* never inserted it returns not-found.
C13_EveryInsertedTripleIsReturned ==
    ExactGot =>
        /\ \A n \in GivenOfKey(TheGet.id, Unwrap(TheGet.version)) :
              TheGet.result = Some(GivenTo[n])
        /\ (GivenOfKey(TheGet.id, Unwrap(TheGet.version)) = {}) => (TheGet.result = None)

\* C13, amended: get(identifier, Some(version)) returns the object of the last
\* insert_object call with that identifier and version, whatever was inserted
\* under other keys afterwards, and not-found when no object with that
\* identifier and version was inserted; a key of the versioned index is lost
\* to no later insert.
C13_LastInsertedUnderKeyIsReturned ==
    /\ ExactGot =>
          IF GivenOfKey(TheGet.id, Unwrap(TheGet.version)) # {}
          THEN TheGet.result = Some(LastGiven(GivenOfKey(TheGet.id, Unwrap(TheGet.version))))
          ELSE TheGet.result = None
    /\ \A i \in 1..Len(inst) :
          DOMAIN CacheOf(i).seq_map
            = {<<inserted[i][n].id, inserted[i][n].version>> : n \in 1..Len(inserted[i])}

\* an exact lookup returned the object of the first of two inserts of the same
\* identifier with different versions
C13_Witness ==
    /\ ExactGot
    /\ Len(GivenTo) = 2
    /\ GivenTo[1].id = GivenTo[2].id
    /\ GivenTo[1].version # GivenTo[2].version
    /\ TheGet.result = Some(GivenTo[1])

\* C14: get(identifier, None) returns the object of the last insert_object call
\* for that identifier, whatever its version, and not-found iff no object of
\* that identifier was inserted.
C14_LatestIsLastInserted ==
    LatestGot =>
        /\ (TheGet.result = None) <=> (GivenOf(TheGet.id) = {})
        /\ (GivenOf(TheGet.id) # {}) => (TheGet.result = Some(LastGiven(GivenOf(TheGet.id))))

\* a higher version then a lower version of an identifier were inserted, and
\* get without a version returned the lower one
C14_Witness ==
    /\ LatestGot
    /\ Len(GivenTo) = 2
    /\ GivenTo[1].id = TheGet.id /\ GivenTo[2].id = TheGet.id
    /\ GivenTo[1].version > GivenTo[2].version
    /\ TheGet.result = Some(GivenTo[2])

\* the step is an insert_object call on instance i
InsertOn(i) == i <= Len(inst) /\ inst' = inst /\ Len(inserted'[i]) = Len(inserted[i]) + 1

\* the step is an insert_object call on instance i, of the object that the
\* call before it on i inserted
InsertsAgain(i) ==
    /\ InsertOn(i)
    /\ Len(inserted[i]) > 0
    /\ inserted'[i][Len(inserted'[i])] = inserted[i][Len(inserted[i])]

\* what C15 says of the second of two inserts of the same object
SameAfterSecond(i) ==
    /\ CacheOf(i)'.id_map = CacheOf(i).id_map
    /\ CacheOf(i)'.seq_map = CacheOf(i).seq_map
    /\ \A id \in ObjectIDs, v \in VersionArgs :
          get(CacheOf(i)'.id_map, CacheOf(i)'.seq_map, id, v)
            = get(CacheOf(i).id_map, CacheOf(i).seq_map, id, v)

\* C15: inserting the object that was just inserted leaves both indexes as the
\* first insert left them, and every get returns what it returned after the
\* first insert.
C15_InsertTwiceIsInsertOnce ==
    [][\A i \in 1..MaxCaches : InsertsAgain(i) => SameAfterSecond(i)]_vars

\* an object was inserted twice in a row and is still found under both indexes
C15_Witness ==
    /\ got # None
    /\ Len(GivenTo) = 2
    /\ GivenTo[1] = GivenTo[2]
    /\ TheGet.id = GivenTo[1].id
    /\ TheGet.result = Some(GivenTo[1])

\* what C18 says of an insert on instance i: the other instances keep their maps
OthersKeep(i) ==
    \A j \in 1..Len(inst) : j # i =>
        /\ CacheOf(j)'.id_map = CacheOf(j).id_map
        /\ CacheOf(j)'.seq_map = CacheOf(j).seq_map

\* what C18 says of a get: what it returns was inserted into the instance it reads
GotOwn ==
    (got # None /\ TheGet.result # None) =>
        \E n \in 1..Len(GivenTo) : GivenTo[n] = Unwrap(TheGet.result)

\* C18: an insert_object call on one instance leaves both indexes of every
\* other instance unchanged, and a get on an instance returns only an object
\* that was inserted into that instance.
C18_InstancesAreIsolated ==
    [][(\A i \in 1..MaxCaches : InsertOn(i) => OthersKeep(i)) /\ GotOwn']_vars

\* two instances hold different objects and a get on one of them missed the
\* identifier that only the other one holds
C18_Witness ==
    /\ got # None
    /\ Len(inst) = 2
    /\ Len(inserted[1]) = 1 /\ Len(inserted[2]) = 1
    /\ inserted[1][1].id # inserted[2][1].id
    /\ TheGet.id = inserted[3 - TheGet.instance][1].id
    /\ TheGet.result = None

\* what C21 says of one InMemObjectCache
IndexesAgree(cache) ==
    /\ \A id \in DOMAIN cache.id_map :
          /\ <<id, cache.id_map[id].version>> \in DOMAIN cache.seq_map
          /\ cache.seq_map[<<id, cache.id_map[id].version>>] = cache.id_map[id]
    /\ \A k \in DOMAIN cache.seq_map : k[1] \in DOMAIN cache.id_map
    /\ \A k \in DOMAIN cache.seq_map :
          cache.seq_map[k].id = k[1] /\ cache.seq_map[k].version = k[2]

\* C21: after any sequence of insert_object calls, the object the
\* by-identifier index holds for an identifier is the object the versioned
\* index holds under (identifier, that object's version); every key of the
\* versioned index has its identifier in the by-identifier index; and every
\* object under a key (identifier, version) has that identifier and version.
C21_TwoIndexesAgree == \A i \in 1..Len(inst) : IndexesAgree(CacheOf(i))

\* an instance was given two different objects under one identifier and
\* version, and both indexes hold the second
C21_Witness ==
    \E i \in 1..Len(inst) :
        /\ Len(inserted[i]) = 2
        /\ inserted[i][1].id = inserted[i][2].id
        /\ inserted[i][1].version = inserted[i][2].version
        /\ inserted[i][1].data # inserted[i][2].data
        /\ CacheOf(i).id_map[inserted[i][1].id] = inserted[i][2]
        /\ CacheOf(i).seq_map[<<inserted[i][1].id, inserted[i][1].version>>] = inserted[i][2]

\* ------------------------------------------------------------------------
\* Properties of get_changes
\* ------------------------------------------------------------------------

TheChanges == Unwrap(changes)

\* the get_changes call that ended last was given invalid input-object data
InvalidInputGiven == changes # None /\ TheChanges.tx.input_objects.tag = "Err"

\* C16 as stated: whenever the transaction's input-object data is invalid,
\* get_changes panics, whatever the object-change algorithm did.
C16_InvalidInputAlwaysFatal ==
    InvalidInputGiven => TheChanges.outcome.tag = "panic"

\* C16, amended: whenever the transaction's input-object data is invalid,
\* get_changes returns no result pair; it panics when the object-change
\* algorithm returned its changes or panicked, and it returns the error of
\* the object-change algorithm when that algorithm returned one, before the
\* input-object data is looked at.
C16_InvalidInputFatalAfterObjectChanges ==
    InvalidInputGiven =>
        /\ TheChanges.outcome.tag # "Ok"
        /\ IF TheChanges.object_change = "Err"
           THEN TheChanges.outcome = Err
           ELSE TheChanges.outcome.tag = "panic"

\* the object-change algorithm resolved a changed object and returned, and
\* get_changes panicked on the invalid input-object data
C16_Witness ==
    /\ InvalidInputGiven
    /\ TheChanges.object_change = "Ok"
    /\ TheChanges.effects.all_changed_objects # <<>>
    /\ TheChanges.outcome = Panic("Checkpointed tx has invalid input objects")

\* ------------------------------------------------------------------------
\* Properties of the resolution operations together
\* ------------------------------------------------------------------------

\* the InMemObjectCache that inserting objs in list order gives
RECURSIVE BuiltFrom(_)
BuiltFrom(objs) ==
    IF objs = <<>> THEN [id_map |-> <<>>, seq_map |-> <<>>]
    ELSE insert_object(BuiltFrom(SubSeq(objs, 1, Len(objs) - 1)), objs[Len(objs)])

\* the step starts after TxChangesProcessor::new has returned
AfterNew == tx_pc # "new"

\* both indexes are what they were
CacheKept == id_map' = id_map /\ seq_map' = seq_map

\* the same kind of outcome (a value, an error, a panic) with the same content
SameOutcome(a, b) == a.tag = b.tag /\ a.value = b.value

\* TxChangesProcessor::new returns in this step
NewEnds == tx_pc = "new" /\ tx_pc' # "new"

\* the indexes are the ones that inserting the object list in order gives
BuiltInListOrder == [id_map |-> id_map, seq_map |-> seq_map] = BuiltFrom(objects)

\* what the lookup that ended last returned is what the indexes give for its
\* arguments
AnswersOfIndexes ==
    /\ GetReturned =>
          SameOutcome(TheCall.outcome,
                      get_object(id_map, seq_map, TheCall.id, TheCall.version))
    /\ FindReturned =>
          SameOutcome(TheCall.outcome,
                      find_object_lt_or_eq_version(id_map, seq_map,
                                                   TheCall.id, TheCall.version))

\* C22: TxChangesProcessor::new returns with the indexes that inserting the
\* object list in order gives; after that no get_object,
\* find_object_lt_or_eq_version or get_changes call, panicking or not, changes
\* either index, and every lookup returns what those indexes give for its
\* arguments, however many calls came before it.
C22_ResolutionIsReadOnly ==
    [][/\ NewEnds => BuiltInListOrder'
       /\ AfterNew => CacheKept
       /\ AnswersOfIndexes']_vars

\* after a lookup that the fallback answered and whatever came before it, the
\* versioned index still has no entry for the version that was asked for
C22_Witness ==
    /\ FindReturned
    /\ Len(objects) = 2
    /\ TheCall.outcome.tag = "Ok"
    /\ <<TheCall.id, TheCall.version>> \notin DOMAIN seq_map
    /\ seq_map = BuiltFrom(objects).seq_map

\* ------------------------------------------------------------------------
\* Properties of EpochEndIndexingObjectStore
\* ------------------------------------------------------------------------

TheStoreCall == Unwrap(epoch_ret)

\* the positions of the output-object list that match the last ObjectStore call
Matches ==
    {i \in 1..Len(Unwrap(epoch_objects)) :
        /\ Unwrap(epoch_objects)[i].id = TheStoreCall.id
        /\ (TheStoreCall.version # None) =>
               (Unwrap(epoch_objects)[i].version = Unwrap(TheStoreCall.version))}

\* C17: get_object(id) returns the first object of the output-object list
\* whose identifier is id, get_object_by_key(id, version) the first one whose
\* identifier and version both match; when none matches both return Ok(None),
\* and neither ever panics or returns an error.
C17_StoreReturnsFirstMatch ==
    (epoch_ret # None) =>
        /\ TheStoreCall.outcome.tag = "Ok"
        /\ (Matches = {}) => (TheStoreCall.outcome.value = None)
        /\ \A i \in Matches :
              (\A j \in Matches : i <= j)
              => (TheStoreCall.outcome.value = Some(Unwrap(epoch_objects)[i]))

\* the list holds two different objects with one identifier and get_object
\* returned the first
C17_Witness ==
    /\ epoch_ret # None
    /\ TheStoreCall.op = "get_object"
    /\ Len(Unwrap(epoch_objects)) = 2
    /\ Unwrap(epoch_objects)[1].id = TheStoreCall.id
    /\ Unwrap(epoch_objects)[2].id = TheStoreCall.id
    /\ Unwrap(epoch_objects)[1] # Unwrap(epoch_objects)[2]
    /\ TheStoreCall.outcome = Ok(Some(Unwrap(epoch_objects)[1]))

\* ------------------------------------------------------------------------
\* Liveness of the GC task
\* ------------------------------------------------------------------------

\* the keys the cache can hold
Keys ==
    {k \in PackageIds \X AllModuleNames :
        \E i \in 1..Len(ModuleNamesOf(k[1])) : ModuleNamesOf(k[1])[i] = k[2]}

\* key k is cached with tag T
Tagged(k, T) == k \in DOMAIN packages /\ packages[k].checkpoint_seq = T

\* the published watermark is at least T
WatermarkAtLeast(T) == commit_watcher # None /\ Unwrap(commit_watcher) >= T

\* the step adds no entry and replaces none
NoInsertTakesEffect ==
    \A k \in DOMAIN packages' : k \in DOMAIN packages /\ packages'[k] = packages[k]

\* every cached entry has a tag above w
OnlyNewerThan(w) == \A k \in DOMAIN packages : packages[k].checkpoint_seq > w

\* the task takes infinitely many ticks past the let-else
TicksKeepFiring == []<><<GcTick /\ UNCHANGED <<call_vars, indexed, obj_vars>>>>_vars

\* what C19 says of an entry tagged T: once the watermark stays at T or above,
\* the entry does not stay for ever
TaggedEntriesGo(T) ==
    (TicksKeepFiring /\ <>[]WatermarkAtLeast(T))
    => \A k \in Keys : (Tagged(k, T) ~> ~Tagged(k, T))

\* what C19 says of the cache once the inserts have ended and the watermark
\* stays at w
OnlyNewerStay(w) ==
    (TicksKeepFiring /\ <>[][NoInsertTakesEffect]_vars /\ <>[](commit_watcher = Some(w)))
    => <>[]OnlyNewerThan(w)

\* C19: with the task scheduled fairly, if its ticks keep firing and the
\* published watermark eventually stays >= T, every entry tagged T is
\* eventually removed or replaced by an insert; if moreover the inserts end
\* and the watermark settles, the cache eventually holds, for good, only
\* entries whose tag exceeds the watermark.
C19_CommittedEntriesAreCollected ==
    /\ \A T \in CheckpointSequenceNumbers : TaggedEntriesGo(T)
    /\ \A w \in CheckpointSequenceNumbers : OnlyNewerStay(w)

\* a sweep is about to end under the watermark it observed: it removed an
\* entry the watermark had reached and every entry left has a greater tag
C19_Witness ==
    /\ gc_pc = "delete" /\ to_remove = {} /\ sweep_start # None
    /\ commit_watcher = committed_checkpoint
    /\ \E k \in DOMAIN Unwrap(sweep_start) :
          /\ Unwrap(sweep_start)[k].checkpoint_seq < Unwrap(commit_watcher)
          /\ k \notin DOMAIN packages
    /\ packages # <<>>
    /\ OnlyNewerThan(Unwrap(commit_watcher))

====
